---- MODULE Spec2Model ----
(***************************************************************************)
(* Model of src/job_scheduler.py: the sqlite job table (JobScheduler's     *)
(* store operations), the run loop (run_pending_jobs / run_job), the watch *)
(* loop (monitor_directory / sync_database_with_filesystem) and the        *)
(* environment they read: the files on disk, command.json, the worker's    *)
(* exit code, a store whose statements can fail, the one-shot "add" and    *)
(* "sync" commands, Ctrl-C (KeyboardInterrupt and the stop event), and the *)
(* process being killed and started again.                                 *)
(*                                                                         *)
(* Every sqlite statement that is committed on its own is one atomic step; *)
(* the run loop and the watch loop interleave between those steps, as the  *)
(* two threads of "monitor-and-run" do.                                    *)
(***************************************************************************)
EXTENDS Integers, Sequences, FiniteSets, TLC

(***************************************************************************)
(* Bounds of the model.                                                    *)
(***************************************************************************)
\* largest number of rows ever inserted: a further INSERT that would take effect is not taken
MaxInserts == 3
\* largest value of the attempts column: a job with that many attempts is not started again
MaxAttempts == 2
\* largest number of consecutive idle cycles of the run loop that is followed
MaxIdle == 10
\* largest exit code the worker returns
MaxExit == 2
\* largest --max-jobs value tried
MaxCap == 2

(***************************************************************************)
(* Program constants.                                                      *)
(***************************************************************************)
\* waiting_timer = 1 (run_pending_jobs, and again per job)
TimerFloor == 1
\* waiting_timer = min(waiting_timer, 300)
TimerCap == 300
\* SQL NULL / Python None in an integer column or argument
None == -1

(***************************************************************************)
(* Paths.  The watched directory is /w; /o/c lies outside of it and enters *)
(* the store through the "add" command only.                               *)
(***************************************************************************)
Files == {"/w/a", "/w/b", "/o/c"}
monitor_dir == "/w"
Patterns == {"*", "a"}

\* os.path.dirname / os.path.basename of the paths above
DirName(f) == IF f = "/o/c" THEN "/o" ELSE "/w"
BaseName(f) == CASE f = "/w/a" -> "a" [] f = "/w/b" -> "b" [] OTHER -> "c"

\* file_path.startswith(monitor_dir)
StartsWith(f, d) == DirName(f) = d

\* glob.glob(os.path.join(monitor_dir, pattern)) restricted to regular files:
\* "*" matches every name of the directory, a literal pattern its own name only
GlobMatch(f, pat) == DirName(f) = monitor_dir /\ (pat = "*" \/ BaseName(f) = pat)

Statuses == {"pending", "running", "completed", "failed"}
Ids == 1..MaxInserts
ExitCodes == 0..MaxExit

VARIABLES
  jobs,           \* the jobs table: rowid -> row
  inserted,       \* history: number of rows inserted so far
  fs,             \* the files that exist on disk
  cfgOK,          \* command.json exists and parses
  dbOK,           \* jobs.db can be written and read (FALSE: a statement raises sqlite3.Error)
  stop,           \* self._stop_event is set
  max_jobs,       \* --max-jobs (None when not given)
  pattern,        \* --pattern of the watch loop
  rpc,            \* position of the run loop
  pending_jobs,   \* the (truncated) result of get_pending_jobs not yet iterated
  cur,            \* (job_id, input_file) of the run_job call in progress
  exit_code,      \* run_job's local exit_code
  status,         \* run_job's local status
  waiting_timer,  \* run_pending_jobs' local waiting_timer
  wpc,            \* position of the watch loop
  processed_files,
  current_files,
  new_files,      \* current_files - processed_files not yet added
  removed_files,  \* processed_files - current_files not yet removed
  all_job_files,  \* sync: the paths of get_all_job_files in scope and not yet checked
  victim,         \* sync: the path found missing, about to be removed ("" when none)
  added,          \* history: what the watch loop's add_job call just found: "new", "known" ("" else)
  \* history variables (not program state)
  outcome,        \* value just returned by run_job ("" once the run loop has moved on)
  returncode,     \* between launch and second UPDATE: the worker's exit code, None when the launch raised
  idle,           \* number of consecutive idle cycles of the run loop
  passed,         \* number of run_job calls of the current cycle so far
  \* the one-shot "sync" command
  spc,            \* position of the sync command: "idle" when none runs, "first" / "second"
                  \* inside the first / second of two calls in a row, "between" between them
  sync_files,     \* its all_job_files not yet checked
  before          \* history: the jobs table when the call in progress started

storeVars == <<jobs, inserted>>
envVars == <<fs, cfgOK, dbOK>>
argVars == <<max_jobs, pattern>>
runVars == <<rpc, pending_jobs, cur, exit_code, status, waiting_timer>>
watchVars == <<wpc, processed_files, current_files, new_files, removed_files, all_job_files, victim, added>>
histVars == <<outcome, returncode, idle, passed>>
cliVars == <<spc, sync_files, before>>
vars == <<storeVars, envVars, argVars, stop, cliVars, runVars, watchVars, histVars>>

(***************************************************************************)
(* The job store.  A row is the record of the columns input_file, status,  *)
(* start_time, end_time, exit_code and attempts, stored under its rowid    *)
(* (the id column); of a timestamp the model keeps whether it is NULL or   *)
(* was written.  launches is a history field: the number of worker         *)
(* launches, since the row was inserted, of run_job calls made for this id *)
(* and this path.                                                          *)
(***************************************************************************)
Max(S) == CHOOSE x \in S : \A y \in S : y <= x
Min2(a, b) == IF a <= b THEN a ELSE b

Paths(J) == {J[i].input_file : i \in DOMAIN J}

\* SELECT id FROM jobs WHERE input_file = ? (fetchone)
IdOf(J, f) == CHOOSE i \in DOMAIN J : J[i].input_file = f /\ \A k \in DOMAIN J : J[k].input_file = f => i <= k

\* INTEGER PRIMARY KEY without AUTOINCREMENT: one more than the largest rowid in use
NextRowid(J) == IF DOMAIN J = {} THEN 1 ELSE Max(DOMAIN J) + 1

\* a TEXT column left NULL, and datetime.now().isoformat() written to it
Null == "NULL"
Now == "now"

NewRow(f) ==
  [input_file |-> f, status |-> "pending", start_time |-> Null, end_time |-> Null,
   exit_code |-> None, attempts |-> 0, launches |-> 0]

\* mutant: the column without its UNIQUE constraint, so that no INSERT is ignored
IgnoredNever(J, f) == FALSE

\* the UNIQUE constraint on input_file makes INSERT OR IGNORE skip a known path
Ignored(J, f) == f \in Paths(J)

\* mutant: the DELETE is never committed
remove_job_lost(J, f) == J

\* remove_job: SELECT id ... WHERE input_file = ?; if found DELETE FROM jobs WHERE id = ?;
\* a statement that fails raises sqlite3.Error, which remove_job catches and logs
remove_job(J, f) ==
  IF dbOK /\ f \in Paths(J) THEN [i \in DOMAIN J \ {IdOf(J, f)} |-> J[i]] ELSE J

\* mutant: INSERT OR REPLACE, which deletes the row of a known path and inserts a fresh one
add_job_replace(J, f) ==
  LET K == remove_job(J, f)
  IN [i \in DOMAIN K \cup {NextRowid(K)} |-> IF i \in DOMAIN K THEN K[i] ELSE NewRow(f)]

\* add_job: INSERT OR IGNORE INTO jobs (input_file, status, attempts) VALUES (?, 'pending', 0);
\* a statement that fails raises sqlite3.Error, which add_job catches and logs
add_job(J, f) ==
  IF ~dbOK \/ Ignored(J, f) THEN J
  ELSE [i \in DOMAIN J \cup {NextRowid(J)} |-> IF i \in DOMAIN J THEN J[i] ELSE NewRow(f)]

\* get_all_job_files: SELECT input_file FROM jobs
get_all_job_files(J) == Paths(J)

RECURSIVE Ascending(_)
Ascending(S) == IF S = {} THEN <<>> ELSE LET m == CHOOSE x \in S : \A y \in S : x <= y IN <<m>> \o Ascending(S \ {m})

\* mutant: failed rows are not selected again
ActionablePendingOnly(J) == {i \in DOMAIN J : J[i].status = "pending"}

\* mutant: every row that is not completed is selected
ActionableUnlessCompleted(J) == {i \in DOMAIN J : J[i].status # "completed"}

\* get_pending_jobs: SELECT id, input_file FROM jobs WHERE status IN ('pending', 'failed'),
\* rows in rowid order (the table scan of sqlite)
Actionable(J) == {i \in DOMAIN J : J[i].status \in {"pending", "failed"}}
get_pending_jobs(J) ==
  LET ids == Ascending(Actionable(J))
  IN [k \in 1..Len(ids) |-> [id |-> ids[k], input_file |-> J[ids[k]].input_file]]

\* run_job: UPDATE jobs SET status = 'running', start_time = ?, attempts = attempts + 1 WHERE id = ?
UpdateRunning(J, id) ==
  IF id \in DOMAIN J
  THEN [J EXCEPT ![id].status = "running", ![id].start_time = Now, ![id].attempts = @ + 1]
  ELSE J

\* run_job: UPDATE jobs SET status = ?, end_time = ?, exit_code = ? WHERE id = ?
UpdateFinished(J, id, st, ec) ==
  IF id \in DOMAIN J
  THEN [J EXCEPT ![id].status = st, ![id].end_time = Now, ![id].exit_code = ec]
  ELSE J

\* history: the worker is launched by run_job(id, f)
CountLaunch(J, id, f) ==
  [i \in DOMAIN J |->
     IF i = id /\ J[i].input_file = f THEN [J[i] EXCEPT !.launches = @ + 1] ELSE J[i]]

(***************************************************************************)
(* Initial state: a fresh jobs.db (setup_database), nothing on disk yet,   *)
(* both loops at the top of their while loop.                              *)
(***************************************************************************)
NoJob == [id |-> 0, input_file |-> ""]

Start ==
  /\ jobs = <<>>
  /\ inserted = 0
  /\ fs = {}
  /\ cfgOK = TRUE
  /\ dbOK = TRUE
  /\ stop = FALSE
  /\ rpc = "fetch"
  /\ pending_jobs = <<>>
  /\ cur = NoJob
  /\ exit_code = None
  /\ status = ""
  /\ waiting_timer = TimerFloor
  /\ wpc = "list"
  /\ processed_files = {}
  /\ current_files = {}
  /\ new_files = {}
  /\ removed_files = {}
  /\ all_job_files = {}
  /\ victim = ""
  /\ added = ""
  /\ outcome = ""
  /\ returncode = None
  /\ idle = 0
  /\ passed = 0
  /\ spc = "idle"
  /\ sync_files = {}
  /\ before = <<>>

\* "monitor-and-run --monitor-dir /w --pattern a": the watch loop follows /w/a alone
Init == Start /\ max_jobs = None /\ pattern = "a"

\* "monitor-and-run --monitor-dir /w --pattern <pattern>", with either pattern
InitWatch == Start /\ max_jobs = None /\ pattern \in Patterns

\* "run": the watch loop is not started and its pattern is the default
InitRun == Start /\ max_jobs = None /\ pattern = "*"

\* "run --max-jobs <m>"
InitCap == Start /\ max_jobs \in 0..MaxCap /\ pattern = "*"

(***************************************************************************)
(* The environment: files appear and disappear, command.json becomes       *)
(* unreadable and readable again, and "add --input-file" is run by hand.   *)
(***************************************************************************)
FileCreate(f) ==
  /\ f \notin fs
  /\ fs' = fs \cup {f}
  /\ UNCHANGED <<cfgOK, dbOK, storeVars, argVars, stop, cliVars, runVars, watchVars, histVars>>

FileDelete(f) ==
  /\ f \in fs
  /\ fs' = fs \ {f}
  /\ UNCHANGED <<cfgOK, dbOK, storeVars, argVars, stop, cliVars, runVars, watchVars, histVars>>

ConfigChange ==
  /\ cfgOK' = ~cfgOK
  /\ UNCHANGED <<fs, dbOK, storeVars, argVars, stop, cliVars, runVars, watchVars, histVars>>

\* the store operation of add_job as one committed step, shared by its callers
Insert(f) ==
  /\ ~dbOK \/ Ignored(jobs, f) \/ inserted < MaxInserts
  /\ jobs' = add_job(jobs, f)
  /\ inserted' = IF ~dbOK \/ Ignored(jobs, f) THEN inserted ELSE inserted + 1

\* main: "add --input-file": scheduler.add_job(os.path.abspath(args.input_file))
CliAdd(f) ==
  /\ Insert(f)
  /\ UNCHANGED <<envVars, argVars, stop, cliVars, runVars, watchVars, histVars>>

(***************************************************************************)
(* The run loop: run_pending_jobs and, per job, run_job.                   *)
(***************************************************************************)
\* if max_jobs: pending_jobs = pending_jobs[:max_jobs]
Truthy(m) == m # None /\ m # 0
Truncate(pj, m) == IF Truthy(m) THEN SubSeq(pj, 1, Min2(m, Len(pj))) ELSE pj

\* mutant: the doubling without the cap
BackoffUncapped(t) == 2 * t

\* waiting_timer *= 2; waiting_timer = min(waiting_timer, 300)
Backoff(t) == Min2(2 * t, TimerCap)

\* the for loop of run_pending_jobs: the next job of this cycle, or back to the while loop
NextJob(pj) ==
  IF pj = <<>>
  THEN /\ rpc' = "fetch"
       /\ cur' = NoJob
       /\ pending_jobs' = <<>>
       /\ passed' = 0
       /\ UNCHANGED waiting_timer
  ELSE /\ rpc' = "load"
       /\ cur' = Head(pj)
       /\ pending_jobs' = Tail(pj)
       /\ waiting_timer' = TimerFloor
       /\ passed' = passed + 1

\* mutant: the loop condition never sees the event
is_set_never(ev) == FALSE

\* self._stop_event.is_set()
is_set(ev) == ev

\* one pass of the while loop up to the first run_job call or the wait
RunFetch ==
  /\ rpc = "fetch"
  /\ ~is_set(stop)
  /\ dbOK
  /\ LET pj == Truncate(get_pending_jobs(jobs), max_jobs) IN
       IF pj # <<>>
       THEN /\ rpc' = "load"
            /\ cur' = Head(pj)
            /\ pending_jobs' = Tail(pj)
            /\ waiting_timer' = TimerFloor
            /\ passed' = 1
            /\ idle' = 0
       ELSE /\ idle < MaxIdle
            /\ rpc' = "wait"
            /\ waiting_timer' = Backoff(waiting_timer)
            /\ passed' = 0
            /\ idle' = idle + 1
            /\ UNCHANGED <<cur, pending_jobs>>
  /\ outcome' = ""
  /\ UNCHANGED <<storeVars, envVars, argVars, stop, cliVars, exit_code, status, watchVars, returncode>>

\* self._stop_event.wait(waiting_timer) returns
RunWait ==
  /\ rpc = "wait"
  /\ rpc' = "fetch"
  /\ UNCHANGED <<storeVars, envVars, argVars, stop, cliVars, pending_jobs, cur, exit_code, status,
                 waiting_timer, watchVars, histVars>>

\* run_job: open("command.json") / json.load; on any exception return "failed"
RunLoad ==
  /\ rpc = "load"
  /\ IF cfgOK
     THEN /\ rpc' = "exists"
          /\ outcome' = ""
          /\ UNCHANGED <<cur, pending_jobs, waiting_timer, passed>>
     ELSE /\ outcome' = "failed"
          /\ NextJob(pending_jobs)
  /\ UNCHANGED <<storeVars, envVars, argVars, stop, cliVars, exit_code, status, watchVars,
                 returncode, idle>>

\* run_job: if not os.path.exists(input_file)
RunExists ==
  /\ rpc = "exists"
  /\ rpc' = IF cur.input_file \in fs THEN "mark" ELSE "remove"
  /\ UNCHANGED <<storeVars, envVars, argVars, stop, cliVars, pending_jobs, cur, exit_code, status,
                 waiting_timer, watchVars, histVars>>

\* run_job: self.remove_job(input_file); return "removed"
RunRemove ==
  /\ rpc = "remove"
  /\ jobs' = remove_job(jobs, cur.input_file)
  /\ outcome' = "removed"
  /\ NextJob(pending_jobs)
  /\ UNCHANGED <<inserted, envVars, argVars, stop, cliVars, exit_code, status, watchVars,
                 returncode, idle>>

\* run_job: the first UPDATE (status running, attempts + 1), committed
RunMark ==
  /\ rpc = "mark"
  /\ dbOK
  /\ cur.id \in DOMAIN jobs => jobs[cur.id].attempts < MaxAttempts
  /\ jobs' = UpdateRunning(jobs, cur.id)
  /\ rpc' = "exec"
  /\ UNCHANGED <<inserted, envVars, argVars, stop, cliVars, pending_jobs, cur, exit_code, status,
                 waiting_timer, watchVars, histVars>>

\* subprocess.run(cmd, check=True) raises when the launch fails (r = None) and, for
\* check=True, when the worker returns a nonzero code
Raises(r) == r = None \/ r # 0

\* run_job, the try/except around subprocess.run: the locals (status, exit_code)
ExecStatus(r) == IF Raises(r) THEN "failed" ELSE IF r = 0 THEN "completed" ELSE "failed"
ExecCode(r) == IF Raises(r) THEN 1 ELSE r

\* run_job: the worker is launched on input_file and waited for
RunExec ==
  /\ rpc = "exec"
  /\ \E r \in ExitCodes \cup {None} :
       /\ returncode' = r
       /\ status' = ExecStatus(r)
       /\ exit_code' = ExecCode(r)
  /\ jobs' = CountLaunch(jobs, cur.id, cur.input_file)
  /\ rpc' = "finish"
  /\ UNCHANGED <<inserted, envVars, argVars, stop, cliVars, pending_jobs, cur, waiting_timer, watchVars,
                 outcome, idle, passed>>

\* run_job: the second UPDATE (status, end_time, exit_code), committed; return status
RunFinish ==
  /\ rpc = "finish"
  /\ dbOK
  /\ jobs' = UpdateFinished(jobs, cur.id, status, exit_code)
  /\ outcome' = status
  /\ status' = ""
  /\ exit_code' = None
  /\ returncode' = None
  /\ NextJob(pending_jobs)
  /\ UNCHANGED <<inserted, envVars, argVars, stop, cliVars, watchVars, idle>>

\* get_pending_jobs and the two UPDATEs of run_job stand in no try block: when their
\* statement fails, sqlite3.Error leaves run_job, run_pending_jobs and main (which
\* catches KeyboardInterrupt only), and the command ends with a traceback
RunRaise ==
  /\ rpc \in {"fetch", "mark", "finish"}
  /\ rpc = "fetch" => ~is_set(stop)
  /\ ~dbOK
  /\ rpc' = "raised"
  /\ pending_jobs' = <<>>
  /\ cur' = NoJob
  /\ exit_code' = None
  /\ status' = ""
  /\ waiting_timer' = TimerFloor
  /\ outcome' = ""
  /\ returncode' = None
  /\ idle' = 0
  /\ passed' = 0
  /\ UNCHANGED <<storeVars, envVars, argVars, stop, cliVars, watchVars>>

\* jobs.db becomes unusable (locked by another process, disk full, file unreadable) and
\* usable again
StoreChange ==
  /\ dbOK' = ~dbOK
  /\ UNCHANGED <<fs, cfgOK, storeVars, argVars, stop, cliVars, runVars, watchVars, histVars>>

(***************************************************************************)
(* "run": the run loop alone, beside an environment that creates and       *)
(* deletes the files of /w, runs the add command on them and breaks and    *)
(* repairs command.json.                                                   *)
(***************************************************************************)
Watched == {f \in Files : DirName(f) = monitor_dir}

NextRun ==
  \/ RunFetch \/ RunWait \/ RunLoad \/ RunExists \/ RunRemove \/ RunMark \/ RunExec \/ RunFinish
  \/ \E f \in Watched : FileCreate(f)
  \/ \E f \in Watched : FileDelete(f)
  \/ \E f \in Watched : CliAdd(f)
  \/ ConfigChange

SpecRun == InitRun /\ [][NextRun]_vars

\* the launch of run_job beside a worker that fails a job at most MaxAttempts - 1 times: a
\* failed row can then always be started once more within the bound on attempts
RunExecBounded ==
  /\ RunExec
  /\ (status' = "failed" /\ cur.id \in DOMAIN jobs) => jobs[cur.id].attempts < MaxAttempts

\* a step of the thread of run_pending_jobs
RunStep ==
  \/ RunFetch \/ RunWait \/ RunLoad \/ RunExists \/ RunRemove \/ RunMark \/ RunExecBounded
  \/ RunFinish

\* "run" that keeps running: the run loop takes a step whenever it can
NextRetry ==
  \/ RunFetch \/ RunWait \/ RunLoad \/ RunExists \/ RunRemove \/ RunMark \/ RunExecBounded
  \/ RunFinish
  \/ \E f \in Watched : FileCreate(f)
  \/ \E f \in Watched : FileDelete(f)
  \/ \E f \in Watched : CliAdd(f)
  \/ ConfigChange

SpecRetry == InitRun /\ [][NextRetry]_vars /\ WF_vars(RunStep)

\* "run" over a store whose statements fail at times
NextFault ==
  \/ RunFetch \/ RunWait \/ RunLoad \/ RunExists \/ RunRemove \/ RunMark \/ RunExec \/ RunFinish
  \/ RunRaise
  \/ \E f \in Watched : FileCreate(f)
  \/ \E f \in Watched : FileDelete(f)
  \/ \E f \in Watched : CliAdd(f)
  \/ StoreChange

SpecFault == InitRun /\ [][NextFault]_vars

(***************************************************************************)
(* "run --max-jobs m": the same, with all three paths in play.             *)
(***************************************************************************)
NextCap ==
  \/ RunFetch \/ RunWait \/ RunLoad \/ RunExists \/ RunRemove \/ RunMark \/ RunExec \/ RunFinish
  \/ \E f \in Files : FileCreate(f)
  \/ \E f \in Files : FileDelete(f)
  \/ \E f \in Files : CliAdd(f)
  \/ ConfigChange

SpecCap == InitCap /\ [][NextCap]_vars

(***************************************************************************)
(* The watch loop: monitor_directory and its call of                       *)
(* sync_database_with_filesystem(monitor_dir, pattern).                    *)
(***************************************************************************)
\* monitor_dir=None, pattern=None: sync_database_with_filesystem called without a scope
NoScope == ""

\* mutant: the scope test without its "monitor_dir is None" alternative
InScopeDirOnly(f, dir, pat) == StartsWith(f, dir) /\ BaseName(f) = pat

\* sync_database_with_filesystem: the condition under which a stored path is checked
InScope(f, dir, pat) == dir = NoScope \/ (StartsWith(f, dir) /\ BaseName(f) = pat)

\* where the iteration continues once the adds (and removes) at hand are done
AfterAdd(new, removed) ==
  IF new # {} THEN "add" ELSE IF removed # {} THEN "remove" ELSE "syncread"

\* mutant: every listed file is taken for a new one
NewFilesAll(current, processed) == current

\* new_files = current_files - processed_files
NewFiles(current, processed) == current \ processed

\* removed_files = processed_files - current_files
RemovedFiles(current, processed) == processed \ current

\* the glob listing, new_files and removed_files of one iteration
WatchList ==
  /\ wpc = "list"
  /\ ~is_set(stop)
  /\ LET listed == {f \in fs : GlobMatch(f, pattern)} IN
       /\ current_files' = listed
       /\ new_files' = NewFiles(listed, processed_files)
       /\ removed_files' = RemovedFiles(listed, processed_files)
       /\ wpc' = AfterAdd(NewFiles(listed, processed_files), RemovedFiles(listed, processed_files))
  /\ added' = ""
  /\ UNCHANGED <<storeVars, envVars, argVars, stop, cliVars, runVars, processed_files, all_job_files,
                 victim, histVars>>

\* for file_path in new_files: self.add_job(file_path)
WatchAdd ==
  /\ wpc = "add"
  /\ \E f \in new_files :
       /\ Insert(f)
       /\ added' = IF Ignored(jobs, f) THEN "known" ELSE "new"
       /\ new_files' = new_files \ {f}
       /\ wpc' = AfterAdd(new_files \ {f}, removed_files)
  /\ UNCHANGED <<envVars, argVars, stop, cliVars, runVars, processed_files, current_files, removed_files,
                 all_job_files, victim, histVars>>

\* for file_path in removed_files: self.remove_job(file_path)
WatchRemove ==
  /\ wpc = "remove"
  /\ \E f \in removed_files :
       /\ jobs' = remove_job(jobs, f)
       /\ removed_files' = removed_files \ {f}
       /\ wpc' = AfterAdd({}, removed_files \ {f})
  /\ added' = ""
  /\ UNCHANGED <<inserted, envVars, argVars, stop, cliVars, runVars, processed_files, current_files,
                 new_files, all_job_files, victim, histVars>>

\* sync_database_with_filesystem: all_job_files = self.get_all_job_files()
WatchSyncRead ==
  /\ wpc = "syncread"
  /\ LET scoped == {f \in get_all_job_files(jobs) : InScope(f, monitor_dir, pattern)} IN
       /\ all_job_files' = scoped
       /\ wpc' = IF scoped # {} THEN "sync" ELSE "end"
  /\ added' = ""
  /\ UNCHANGED <<storeVars, envVars, argVars, stop, cliVars, runVars, processed_files, current_files,
                 new_files, removed_files, victim, histVars>>

\* sync_database_with_filesystem: if not os.path.exists(file_path)
WatchSyncCheck ==
  /\ wpc = "sync"
  /\ \E f \in all_job_files :
       /\ all_job_files' = all_job_files \ {f}
       /\ IF f \in fs
          THEN /\ wpc' = IF all_job_files \ {f} # {} THEN "sync" ELSE "end"
               /\ UNCHANGED victim
          ELSE /\ wpc' = "syncrm"
               /\ victim' = f
  /\ UNCHANGED <<storeVars, envVars, argVars, stop, cliVars, runVars, processed_files, current_files,
                 new_files, removed_files, added, histVars>>

\* sync_database_with_filesystem: self.remove_job(file_path)
WatchSyncRemove ==
  /\ wpc = "syncrm"
  /\ jobs' = remove_job(jobs, victim)
  /\ victim' = ""
  /\ wpc' = IF all_job_files # {} THEN "sync" ELSE "end"
  /\ UNCHANGED <<inserted, envVars, argVars, stop, cliVars, runVars, processed_files, current_files,
                 new_files, removed_files, all_job_files, added, histVars>>

\* processed_files = current_files; self._stop_event.wait(5)
WatchEnd ==
  /\ wpc = "end"
  /\ processed_files' = current_files
  /\ current_files' = {}
  /\ wpc' = "list"
  /\ UNCHANGED <<storeVars, envVars, argVars, stop, cliVars, runVars, new_files, removed_files,
                 all_job_files, victim, added, histVars>>

\* while not self._stop_event.is_set(): the event is set, monitor_directory returns
WatchExit ==
  /\ wpc = "list"
  /\ is_set(stop)
  /\ wpc' = "exit"
  /\ processed_files' = {}
  /\ UNCHANGED <<storeVars, envVars, argVars, stop, cliVars, runVars, current_files, new_files,
                 removed_files, all_job_files, victim, added, histVars>>

(***************************************************************************)
(* "monitor-and-run": the watch loop and the run loop as two threads over  *)
(* one store, beside an environment that changes the watched directory and *)
(* runs the add command on its paths.                                      *)
(***************************************************************************)
Next ==
  \/ RunFetch \/ RunWait \/ RunLoad \/ RunExists \/ RunRemove \/ RunMark \/ RunExec \/ RunFinish
  \/ WatchList \/ WatchAdd \/ WatchRemove \/ WatchSyncRead \/ WatchSyncCheck
  \/ WatchSyncRemove \/ WatchEnd
  \/ \E f \in Watched : FileCreate(f)
  \/ \E f \in Watched : FileDelete(f)
  \/ \E f \in Watched : CliAdd(f)

Spec == Init /\ [][Next]_vars

\* "monitor-and-run" with nobody running the add command beside the two loops
NextWatch ==
  \/ RunFetch \/ RunWait \/ RunLoad \/ RunExists \/ RunRemove \/ RunMark \/ RunExec \/ RunFinish
  \/ WatchList \/ WatchAdd \/ WatchRemove \/ WatchSyncRead \/ WatchSyncCheck
  \/ WatchSyncRemove \/ WatchEnd
  \/ \E f \in Watched : FileCreate(f)
  \/ \E f \in Watched : FileDelete(f)

SpecWatch == InitWatch /\ [][NextWatch]_vars

(***************************************************************************)
(* Cancellation.  The stop event is set by scheduler.stop(), which main    *)
(* calls in its KeyboardInterrupt handlers and nowhere else.  Python       *)
(* raises KeyboardInterrupt in the main thread, which is the thread of     *)
(* run_pending_jobs in "run" and in "monitor-and-run": the exception       *)
(* leaves run_pending_jobs wherever it stands (run_job catches Exception,  *)
(* which KeyboardInterrupt is not; subprocess.run kills the worker and     *)
(* re-raises), and the handler then sets the event.  So the run loop never *)
(* reads the event set; the watch loop, a daemon thread, reads it at the   *)
(* top of its next iteration, unless the process has ended before.         *)
(***************************************************************************)
\* KeyboardInterrupt in the main thread, up to the end of main's handler
Interrupt ==
  /\ rpc # "exit"
  /\ rpc' = "exit"
  /\ stop' = TRUE
  /\ pending_jobs' = <<>>
  /\ cur' = NoJob
  /\ exit_code' = None
  /\ status' = ""
  /\ waiting_timer' = TimerFloor
  /\ outcome' = ""
  /\ returncode' = None
  /\ idle' = 0
  /\ passed' = 0
  /\ UNCHANGED <<storeVars, envVars, argVars, cliVars, watchVars>>

\* main returns after the handler: the interpreter exits and the daemon thread of
\* monitor_directory ends with it, wherever it stands
Shutdown ==
  /\ rpc = "exit"
  /\ wpc \notin {"exit", "killed"}
  /\ wpc' = "killed"
  /\ processed_files' = {}
  /\ current_files' = {}
  /\ new_files' = {}
  /\ removed_files' = {}
  /\ all_job_files' = {}
  /\ victim' = ""
  /\ added' = ""
  /\ UNCHANGED <<storeVars, envVars, argVars, stop, cliVars, runVars, histVars>>

\* a step of the thread of monitor_directory
WatchStep ==
  \/ WatchList \/ WatchAdd \/ WatchRemove \/ WatchSyncRead \/ WatchSyncCheck
  \/ WatchSyncRemove \/ WatchEnd \/ WatchExit

\* "monitor-and-run --pattern a" that is interrupted at some moment.  Both threads keep
\* taking steps while they can, and the process ends once main has returned.
NextStop ==
  \/ RunFetch \/ RunWait \/ RunLoad \/ RunExists \/ RunRemove \/ RunMark \/ RunExec \/ RunFinish
  \/ WatchList \/ WatchAdd \/ WatchRemove \/ WatchSyncRead \/ WatchSyncCheck
  \/ WatchSyncRemove \/ WatchEnd \/ WatchExit
  \/ \E f \in Watched : FileCreate(f)
  \/ \E f \in Watched : FileDelete(f)
  \/ Interrupt
  \/ Shutdown

SpecStop == Init /\ [][NextStop]_vars /\ WF_vars(WatchStep) /\ WF_vars(Shutdown)

\* "monitor-and-run --pattern a" that is never interrupted: both threads take a step
\* whenever they can
NextLive ==
  \/ RunFetch \/ RunWait \/ RunLoad \/ RunExists \/ RunRemove \/ RunMark \/ RunExecBounded
  \/ RunFinish
  \/ WatchList \/ WatchAdd \/ WatchRemove \/ WatchSyncRead \/ WatchSyncCheck
  \/ WatchSyncRemove \/ WatchEnd
  \/ \E f \in Watched : FileCreate(f)
  \/ \E f \in Watched : FileDelete(f)

SpecLive == Init /\ [][NextLive]_vars /\ WF_vars(WatchStep) /\ WF_vars(RunStep)

(***************************************************************************)
(* The process is killed and the same command is started again: jobs.db    *)
(* and the disk are as they were left, every local of the two loops is as  *)
(* at the start (processed_files = set(), waiting_timer = 1) and the stop  *)
(* event is a fresh one.                                                   *)
(***************************************************************************)
Restart ==
  /\ rpc' = "fetch"
  /\ pending_jobs' = <<>>
  /\ cur' = NoJob
  /\ exit_code' = None
  /\ status' = ""
  /\ waiting_timer' = TimerFloor
  /\ wpc' = "list"
  /\ processed_files' = {}
  /\ current_files' = {}
  /\ new_files' = {}
  /\ removed_files' = {}
  /\ all_job_files' = {}
  /\ victim' = ""
  /\ added' = ""
  /\ outcome' = ""
  /\ returncode' = None
  /\ idle' = 0
  /\ passed' = 0
  /\ stop' = FALSE
  /\ UNCHANGED <<storeVars, envVars, argVars, cliVars>>

\* "run", killed and started again at any moment, beside the changing directory and the
\* add command
NextCrash ==
  \/ RunFetch \/ RunWait \/ RunLoad \/ RunExists \/ RunRemove \/ RunMark \/ RunExec \/ RunFinish
  \/ \E f \in Watched : FileCreate(f)
  \/ \E f \in Watched : FileDelete(f)
  \/ \E f \in Watched : CliAdd(f)
  \/ Restart

SpecCrash == InitRun /\ [][NextCrash]_vars

(***************************************************************************)
(* "monitor": the watch loop alone, killed and started again at any        *)
(* moment, over a directory that changes between two iterations of the     *)
(* loop only (Between), never under a running iteration.                   *)
(***************************************************************************)
\* "monitor --monitor-dir /w --pattern <pattern>", with either pattern
InitMonitor == Start /\ max_jobs = None /\ pattern \in Patterns

Between == wpc = "list"

NextMonitor ==
  \/ WatchList \/ WatchAdd \/ WatchRemove \/ WatchSyncRead \/ WatchSyncCheck
  \/ WatchSyncRemove \/ WatchEnd
  \/ \E f \in Watched : Between /\ FileCreate(f)
  \/ \E f \in Watched : Between /\ FileDelete(f)
  \/ Restart

SpecMonitor == InitMonitor /\ [][NextMonitor]_vars

(***************************************************************************)
(* "sync": sync_database_with_filesystem() without a scope, run as a       *)
(* command of its own, twice in a row.  The store is built up by the run   *)
(* loop and the add command beside a changing directory; from the moment   *)
(* the first call starts until the second has returned nothing else takes  *)
(* a step (Quiet), so neither the store nor the disk changes under it.     *)
(***************************************************************************)
\* all_job_files = self.get_all_job_files(), every path being in scope
CliSyncRead ==
  /\ spc \in {"idle", "between"}
  /\ spc' = IF spc = "idle" THEN "first" ELSE "second"
  /\ sync_files' = {f \in get_all_job_files(jobs) : InScope(f, NoScope, NoScope)}
  /\ before' = jobs
  /\ UNCHANGED <<storeVars, envVars, argVars, stop, runVars, watchVars, histVars>>

\* one pass of the for loop: if not os.path.exists(file_path): self.remove_job(file_path)
CliSyncCheck ==
  /\ spc \in {"first", "second"}
  /\ \E f \in sync_files :
       /\ sync_files' = sync_files \ {f}
       /\ jobs' = IF f \in fs THEN jobs ELSE remove_job(jobs, f)
  /\ UNCHANGED <<inserted, envVars, argVars, stop, spc, before, runVars, watchVars, histVars>>

\* the call returns; main prints "Database synchronized with filesystem."
CliSyncEnd ==
  /\ spc \in {"first", "second"}
  /\ sync_files = {}
  /\ spc' = IF spc = "first" THEN "between" ELSE "idle"
  /\ before' = IF spc = "first" THEN before ELSE <<>>
  /\ UNCHANGED <<storeVars, envVars, argVars, stop, sync_files, runVars, watchVars, histVars>>

Quiet == spc = "idle"

NextSync ==
  \/ Quiet /\ RunFetch
  \/ Quiet /\ RunWait
  \/ Quiet /\ RunLoad
  \/ Quiet /\ RunExists
  \/ Quiet /\ RunRemove
  \/ Quiet /\ RunMark
  \/ Quiet /\ RunExec
  \/ Quiet /\ RunFinish
  \/ \E f \in Watched : Quiet /\ FileCreate(f)
  \/ \E f \in Watched : Quiet /\ FileDelete(f)
  \/ \E f \in Watched : Quiet /\ CliAdd(f)
  \/ CliSyncRead \/ CliSyncCheck \/ CliSyncEnd

SpecSync == InitRun /\ [][NextSync]_vars

(***************************************************************************)
(* Properties.                                                             *)
(***************************************************************************)
Row(f) == jobs[IdOf(jobs, f)]

\* C1: in every reachable state, whatever the interleaving of the add_job and remove_job
\* calls of the watch loop, the run loop and the add command, no two rows of the store
\* have the same input_file.
C1_OneRowPerFile == \A i, k \in DOMAIN jobs : jobs[i].input_file = jobs[k].input_file => i = k

\* two rows are stored after a path was removed and added again while a job executes
C1_Witness == Cardinality(DOMAIN jobs) = 2 /\ inserted >= 3 /\ rpc = "finish"

\* the step inserts exactly one row, for f, pending with attempts 0, and touches no other row
AddedOne(f) ==
  \E n \in DOMAIN jobs' \ DOMAIN jobs :
    /\ DOMAIN jobs' = DOMAIN jobs \cup {n}
    /\ jobs'[n].input_file = f
    /\ jobs'[n].status = "pending"
    /\ jobs'[n].attempts = 0
    /\ \A i \in DOMAIN jobs : jobs'[i] = jobs[i]

\* C2: add_job(path) inserts exactly one row (pending, attempts 0) when path has no row,
\* and leaves the whole store unchanged when path has a row, whatever that row's status and
\* attempts; so a second add of the same path changes nothing.
C2_AddIdempotent ==
  [][ /\ (wpc = "add" /\ new_files' # new_files) =>
           LET f == CHOOSE x \in new_files : x \notin new_files'
           IN IF f \in Paths(jobs) THEN jobs' = jobs ELSE AddedOne(f)
      /\ inserted' # inserted => \E f \in Files : f \notin Paths(jobs) /\ AddedOne(f)
    ]_vars

\* the watch loop has just called add_job on a path whose row is completed after two attempts
C2_Witness ==
  /\ added = "known"
  /\ \E f \in current_files \ processed_files :
       f \in Paths(jobs) /\ Row(f).status = "completed" /\ Row(f).attempts = 2

\* the status changes the lifecycle allows a stored row
Allowed(s, t) ==
  \/ s = t
  \/ s \in {"pending", "failed"} /\ t = "running"
  \/ s = "running" /\ t \in {"completed", "failed"}

\* C3: in every step of every interleaving of the run loop and the watch loop, a row that
\* stays in the store keeps its status or changes it along {pending, failed} -> running ->
\* {completed, failed}; no pending row becomes completed or failed directly.
C3_StatusLifecycle ==
  [][\A i \in DOMAIN jobs \cap DOMAIN jobs' : Allowed(jobs[i].status, jobs'[i].status)]_vars

\* C4: whenever the run loop is not between the first UPDATE and the launch of a job, the
\* attempts of every stored row equal the number of worker launches made for that row
\* (by run_job calls for the row's id and input_file, since the row was inserted).
C4_AttemptsCountLaunches ==
  rpc # "exec" => \A i \in DOMAIN jobs : jobs[i].attempts = jobs[i].launches

\* C5: the worker is never launched on an input file whose row is completed: when the run
\* loop is about to launch the worker, the store holds no completed row for that path.
C5_NoLaunchOnceCompleted ==
  rpc = "exec" =>
    \A i \in DOMAIN jobs : jobs[i].input_file = cur.input_file => jobs[i].status # "completed"

C7_ConfigErrorMarksFailed ==
  [][(rpc = "load" /\ ~cfgOK /\ outcome' = "failed") =>
       (cur.id \in DOMAIN jobs' => jobs'[cur.id].status = "failed")]_vars

\* C8: after the second UPDATE of run_job the row is completed exactly when the worker
\* returned 0, and its exit_code is the code the worker returned (1 when the launch raised).
C8_ExitCodeRecorded ==
  [][(rpc = "finish" /\ rpc' # "finish" /\ cur.id \in DOMAIN jobs') =>
       /\ jobs'[cur.id].status = (IF returncode = 0 THEN "completed" ELSE "failed")
       /\ jobs'[cur.id].exit_code = (IF returncode = None THEN 1 ELSE returncode)]_vars

RECURSIVE Pow2(_)
Pow2(k) == IF k <= 0 THEN 1 ELSE 2 * Pow2(k - 1)

\* C9 (amended): after k >= 1 consecutive idle cycles waiting_timer is min(2^k, 300), so the
\* waits are 2, 4, 8, ..., 256, 300, 300, ...; once a cycle found jobs it is 1 again, so the
\* first idle cycle after work waits 2; a wait is never below 2 or above 300.
C9_Backoff ==
  /\ waiting_timer = (IF idle = 0 THEN TimerFloor ELSE Min2(Pow2(idle), TimerCap))
  /\ rpc = "wait" => idle >= 1 /\ waiting_timer >= 2 /\ waiting_timer <= TimerCap

\* the ninth idle cycle after a completed job waits the cap (2^9 = 512 > 300)
C9_Witness ==
  /\ rpc = "wait"
  /\ idle = 9
  /\ waiting_timer = TimerCap
  /\ \E i \in DOMAIN jobs : jobs[i].status = "completed"

\* C9 as claimed: the k-th consecutive idle cycle waits min(2^(k-1), 300): 1, 2, 4, 8, ...
C9_WaitsFromOne == rpc = "wait" => waiting_timer = Min2(Pow2(idle - 1), TimerCap)

\* C10: with --max-jobs m (m >= 0) at most m jobs are passed to run_job in one cycle.
C10_MaxJobsCap == max_jobs # None => passed <= max_jobs

\* the rows of J whose file is on disk, each as it is in J
Kept(J) == [i \in {k \in DOMAIN J : J[k].input_file \in fs} |-> J[i]]

\* C11: sync without a scope, with nothing else changing the store or the disk, leaves
\* exactly the rows whose file exists, each with its id and all its columns as before,
\* and removes every row whose file is absent; a second sync right after changes nothing.
C11_SyncNoScope ==
  [][(spc \in {"first", "second"} /\ spc' \notin {"first", "second"}) =>
       /\ jobs = Kept(before)
       /\ spc = "second" => jobs = before]_vars

\* the first of the two calls has removed one of two rows and kept a row completed at its
\* second attempt
C11_Witness ==
  /\ spc = "between"
  /\ Cardinality(DOMAIN before) = 2
  /\ Cardinality(DOMAIN jobs) = 1
  /\ \E i \in DOMAIN jobs :
       jobs[i].status = "completed" /\ jobs[i].attempts = 2 /\ jobs[i].end_time = Now

\* the id and the columns of the row of f in J (<<>> when f has no row)
RowOf(J, f) == IF f \in Paths(J) THEN <<IdOf(J, f), J[IdOf(J, f)]>> ELSE <<>>

\* the step changes the row of no path other than f
OnlyRowOf(f) == \A g \in Files \ {f} : RowOf(jobs', g) = RowOf(jobs, g)

\* C12 (amended): in a watch iteration with listing C and previously observed set P, add_job
\* is called for the paths of C \ P, one by one until none is left, then remove_job for the
\* paths of P \ C, then the reconciliation pass runs, and P becomes C; a step of the watch
\* loop changes a row only by adding a path of C \ P, by removing a path of P \ C, or, in
\* the reconciliation pass, by removing the row of a path that the pass has just found
\* absent from the disk (which may be a path of both C and P, deleted since the listing).
C12_WatchIteration ==
  [][watchVars' # watchVars =>
       /\ wpc = "list" =>
            /\ new_files' = current_files' \ processed_files
            /\ removed_files' = processed_files \ current_files'
            /\ jobs' = jobs
       /\ wpc = "add" =>
            \E f \in (current_files \ processed_files) \cap new_files :
              new_files' = new_files \ {f} /\ f \in Paths(jobs') /\ OnlyRowOf(f)
       /\ wpc = "remove" =>
            \E f \in (processed_files \ current_files) \cap removed_files :
              removed_files' = removed_files \ {f} /\ f \notin Paths(jobs') /\ OnlyRowOf(f)
       /\ wpc' = "remove" => new_files' = {}
       /\ wpc' = "syncread" => new_files' = {} /\ removed_files' = {}
       /\ wpc \in {"syncread", "sync"} =>
            jobs' = jobs /\ (victim' # victim => victim' \notin fs)
       /\ wpc = "syncrm" => victim \notin Paths(jobs') /\ OnlyRowOf(victim)
       /\ wpc = "end" => processed_files' = current_files /\ jobs' = jobs]_vars

\* third cycle of the scenario: {/w/a, /w/b} was observed, /w/b alone is listed now, and the
\* row of /w/a has just been removed while /w/b keeps its row
C12_Witness ==
  /\ pattern = "*"
  /\ wpc = "syncread"
  /\ processed_files = {"/w/a", "/w/b"}
  /\ current_files = {"/w/b"}
  /\ "/w/a" \notin Paths(jobs)
  /\ "/w/b" \in Paths(jobs)

\* C12 as claimed: no step of the watch loop touches the row of a path that is in both the
\* listing and the previously observed set.
C12_BothUntouched ==
  [][watchVars' # watchVars =>
       \A f \in current_files \cap processed_files : RowOf(jobs', f) = RowOf(jobs, f)]_vars

\* C13: when the watch loop starts an iteration with an empty previously observed set and
\* nothing changes the directory during the iteration, then at the end of the iteration the
\* store holds no row for a path of the watched directory that matches the pattern (a glob
\* such as "*" included) and whose file is absent.
C13_SelfHealing ==
  (wpc = "end" /\ processed_files = {}) =>
    \A f \in Files : (GlobMatch(f, pattern) /\ f \in Paths(jobs)) => f \in fs

\* C14: once the run loop has exited because of the cancellation signal, no row is left
\* with status running: a job that was executing when the signal came has had its terminal
\* status and end_time written before the loop exited.
C14_CleanShutdown == rpc = "exit" => \A i \in DOMAIN jobs : jobs[i].status # "running"

\* C15: no failure of a store statement ever leaves the operation that issued it: the run
\* loop is never terminated by one, and none is raised to the top-level command.
C15_FailureAbsorbed == rpc # "raised"

\* a row left in status running that no run_job call in progress is executing
Orphan(i) == jobs[i].status = "running" /\ ~(rpc \in {"exec", "finish"} /\ cur.id = i)

FailedAfter(f, n) == f \in Paths(jobs) /\ Row(f).status = "failed" /\ Row(f).attempts = n
Launching(f, n) ==
  rpc = "exec" /\ cur.input_file = f /\ f \in Paths(jobs) /\ Row(f).attempts = n

\* the safety part of C17: a failed row is in the result of get_pending_jobs whatever its
\* attempts, and the second UPDATE after a worker that returned 0 leaves the row completed
RetrySafe ==
  [][ /\ \A i \in DOMAIN jobs : jobs[i].status = "failed" =>
           \E k \in 1..Len(get_pending_jobs(jobs)) : get_pending_jobs(jobs)[k].id = i
      /\ (rpc = "finish" /\ rpc' # "finish" /\ returncode = 0) =>
           (cur.id \in DOMAIN jobs' /\ jobs'[cur.id].status = "completed")
    ]_vars

BothExited == rpc = "exit" /\ wpc \in {"exit", "killed"}

\* C18: once the stop event is set it stays set, the watch loop standing at the top of its
\* loop (its wait over) begins no further iteration, a loop that has exited does not run
\* again, and eventually both loops have exited.
C18_StopExits ==
  /\ [][stop =>
          /\ stop'
          /\ wpc = "list" => wpc' \in {"list", "exit", "killed"}
          /\ wpc \in {"exit", "killed"} => wpc' = wpc
          /\ rpc = "exit" => rpc' = "exit"]_vars
  /\ stop ~> BothExited

\* the run loop was interrupted and the watch loop has read the event and returned, with a
\* job still in the store
C18_Witness == stop /\ rpc = "exit" /\ wpc = "exit" /\ jobs # <<>>

\* C19: with both loops running, if /w/a (which matches the pattern) is on disk from some
\* point on forever, then from some point on the store holds a row for it forever.  (The
\* premise also keeps the number of inserts below MaxInserts, so that the watch loop's
\* add_job is never held back by that bound of the model.)
C19_PresentFileHasRow ==
  <>[]("/w/a" \in fs /\ inserted < MaxInserts) => <>[]("/w/a" \in Paths(jobs))

\* C20: under every interleaving of the watch loop's remove_job and add_job calls with a
\* run_job call in progress, the two UPDATEs of run_job create no row and change no row
\* other than one of the input file that run_job is executing.
C20_UpdatesOnlyOwnRow ==
  [][(rpc \in {"mark", "finish"} /\ rpc' # rpc) =>
       /\ DOMAIN jobs' = DOMAIN jobs
       /\ \A i \in DOMAIN jobs : jobs'[i] # jobs[i] => jobs[i].input_file = cur.input_file]_vars

====
